---- MODULE Spec2Model ----
(***************************************************************************)
(* Model of src/app.py (AI Sentiment Analyzer): the key validator          *)
(* validate_api_key and the sentiment request adapter analyze_sentiment    *)
(* together with the try/except block of main() that calls it.             *)
(*                                                                         *)
(* Python strings are sequences of one-character strings, so that strip(), *)
(* lower(), startswith(), find() and slicing are computed, not assumed.    *)
(***************************************************************************)
EXTENDS Integers, Sequences, FiniteSets, TLC

VARIABLES
    vpc,          \* position inside validate_api_key
    v_key,        \* its argument api_key
    v_present,    \* TRUE iff "from openai import ..." succeeded (app.py:16-20)
    v_outcome,    \* what client.models.list() does when it is called
    v_client,     \* TRUE iff validate_api_key created a client
    v_calls,      \* number of provider calls made by validate_api_key
    v_exc,        \* exception in flight inside validate_api_key, or NoExc
    v_ret,        \* returned pair, or NoRet
    v_escaped,    \* TRUE iff an exception left validate_api_key
    apc,          \* position inside the Analyze branch of main()
    a_model,      \* model identifier chosen in the sidebar
    a_resp,       \* what chat.completions.create() does / returns
    a_calls,      \* number of completion requests issued
    a_temp,       \* temperature of the issued request, or NoTemp
    a_data,       \* parsed JSON value
    a_exc,        \* exception in flight, or NoExc
    a_result,     \* SentimentResult returned by analyze_sentiment, or NoResult
    a_reasoning,  \* reasoning trace returned by analyze_sentiment
    a_shown,      \* SentimentResult rendered by main(), or NoResult
    a_handler,    \* except clause of main() that handled the failure
    a_escaped,    \* TRUE iff an exception left the try block of main()
    key_valid,    \* st.session_state.key_valid
    api_key,      \* st.session_state.api_key
    key_status,   \* st.session_state.key_status
    input_text,   \* st.session_state.input_text
    s_action,     \* what the user did to trigger the latest run of main()
    s_disabled,   \* analyze_disabled of the latest run, or "unset" (app.py:285)
    s_error       \* text error reported by the latest run (app.py:295-298)

vvars == <<vpc, v_key, v_present, v_outcome, v_client, v_calls, v_exc, v_ret, v_escaped>>
avars == <<apc, a_model, a_resp, a_calls, a_temp, a_data, a_exc,
           a_result, a_reasoning, a_shown, a_handler, a_escaped, key_valid>>
svars == <<api_key, key_status, input_text, s_action, s_disabled, s_error>>
vars == <<vvars, avars, svars>>

(***************************************************************************)
(* Bounds of the model.                                                    *)
(***************************************************************************)
MaxKeyBody == 21
MaxContentLen == 5
MaxBaseLen == 3
MaxRepeat == 7

(***************************************************************************)
(* Python str helpers.                                                     *)
(***************************************************************************)
Whitespace == {" ", "\t", "\n"}

Rep(c, n) == [i \in 1..n |-> c]

RECURSIVE LStrip(_)
LStrip(s) ==
    IF s = <<>> THEN <<>>
    ELSE IF Head(s) \in Whitespace THEN LStrip(Tail(s)) ELSE s

RECURSIVE RStrip(_)
RStrip(s) ==
    IF s = <<>> THEN <<>>
    ELSE IF s[Len(s)] \in Whitespace THEN RStrip(SubSeq(s, 1, Len(s) - 1)) ELSE s

Strip(s) == RStrip(LStrip(s))

StartsWith(s, p) == Len(s) >= Len(p) /\ SubSeq(s, 1, Len(p)) = p

Contains(s, p) ==
    \E i \in 1..(Len(s) - Len(p) + 1) : SubSeq(s, i, i + Len(p) - 1) = p

LowerChar(c) ==
    CASE c = "A" -> "a" [] c = "B" -> "b" [] c = "C" -> "c" [] c = "D" -> "d"
      [] c = "E" -> "e" [] c = "F" -> "f" [] c = "G" -> "g" [] c = "H" -> "h"
      [] c = "I" -> "i" [] c = "J" -> "j" [] c = "K" -> "k" [] c = "L" -> "l"
      [] c = "M" -> "m" [] c = "N" -> "n" [] c = "O" -> "o" [] c = "P" -> "p"
      [] c = "Q" -> "q" [] c = "R" -> "r" [] c = "S" -> "s" [] c = "T" -> "t"
      [] c = "U" -> "u" [] c = "V" -> "v" [] c = "W" -> "w" [] c = "X" -> "x"
      [] c = "Y" -> "y" [] c = "Z" -> "z" [] OTHER -> c

Lower(s) == [i \in 1..Len(s) |-> LowerChar(s[i])]

(***************************************************************************)
(* Exceptions.  ExcParent is the class hierarchy of the openai package and *)
(* of the Python built-ins that the code can raise.                        *)
(***************************************************************************)
NoExc == [type |-> "none", msg |-> "none"]

ExcParent(t) ==
    CASE t = "AuthenticationError" -> "APIStatusError"
      [] t = "RateLimitError"      -> "APIStatusError"
      [] t = "APIStatusError"      -> "APIError"
      [] t = "APITimeoutError"     -> "APIConnectionError"
      [] t = "APIConnectionError"  -> "APIError"
      [] t = "APIError"            -> "OpenAIError"
      [] t = "OpenAIError"         -> "Exception"
      [] t = "JSONDecodeError"     -> "ValueError"
      [] t = "OverflowError"       -> "ArithmeticError"
      [] t = "IndexError"          -> "LookupError"
      [] OTHER                     -> "Exception"

RECURSIVE IsSubclass(_, _)
IsSubclass(t, cls) ==
    IF t = cls THEN TRUE
    ELSE IF t = "Exception" THEN FALSE
    ELSE IsSubclass(ExcParent(t), cls)

\* app.py:16-20: when the import fails every openai exception name is bound
\* to Exception itself.
ExcName(name, present) == IF present THEN name ELSE "Exception"

\* An except clause list is a sequence of records [cls, ...]; Python runs the
\* first clause whose class the exception is an instance of.
RECURSIVE FirstMatch(_, _, _)
FirstMatch(clauses, t, i) ==
    IF i > Len(clauses) THEN 0
    ELSE IF IsSubclass(t, clauses[i].cls) THEN i
    ELSE FirstMatch(clauses, t, i + 1)

(***************************************************************************)
(* _looks_like_openai_key (app.py:53-56).                                  *)
(***************************************************************************)
KeyPrefixes == { <<"s","k","-">>, <<"s","e","s","s","-">>, <<"r","k","-">> }

MinKeyLen == 20

\* re.match(r"^(sk-|sess-|rk-).+", key): a prefix followed by at least one
\* character that "." matches, i.e. one that is not a newline.
KeyRegexMatch(key) ==
    \E p \in KeyPrefixes :
        /\ StartsWith(key, p)
        /\ Len(key) > Len(p)
        /\ key[Len(p) + 1] /= "\n"

\* The same check with the pattern ^(sk-|sess-|rk-).* : a bare prefix passes.
looks_like_openai_key_star(raw) ==
    LET key == Strip(raw)
    IN  IF key /= <<>>
        THEN (\E p \in KeyPrefixes : StartsWith(key, p)) \/ Len(key) >= MinKeyLen
        ELSE FALSE

looks_like_openai_key(raw) ==
    LET key == Strip(raw)
    IN  IF key /= <<>> THEN KeyRegexMatch(key) \/ Len(key) >= MinKeyLen ELSE FALSE

(***************************************************************************)
(* validate_api_key (app.py:64-82).                                        *)
(***************************************************************************)
NoRet == [ok |-> FALSE, msg |-> "none"]

\* What client.models.list() can do.
ListOutcomes ==
    {"ok", "AuthenticationError", "RateLimitError", "APIConnectionError",
     "APITimeoutError", "APIStatusError", "OpenAIError", "Exception"}

\* The same clauses with "except APIError" written first: it shadows the
\* clauses of its subclasses.
ValidateClausesApiFirst(present) ==
    << [cls |-> ExcName("APIError", present), ok |-> FALSE,
        msg |-> "OpenAI API error while validating key"],
       [cls |-> ExcName("AuthenticationError", present), ok |-> FALSE,
        msg |-> "Authentication failed: invalid or revoked API key."],
       [cls |-> ExcName("RateLimitError", present), ok |-> TRUE,
        msg |-> "Key is valid, but you are rate-limited right now."],
       [cls |-> ExcName("APIConnectionError", present), ok |-> FALSE,
        msg |-> "Could not reach OpenAI (network/connectivity issue)."],
       [cls |-> ExcName("OpenAIError", present), ok |-> FALSE,
        msg |-> "OpenAI error while validating key"],
       [cls |-> "Exception", ok |-> FALSE,
        msg |-> "Unexpected error while validating key"] >>

ValidateClauses(present) ==
    << [cls |-> ExcName("AuthenticationError", present), ok |-> FALSE,
        msg |-> "Authentication failed: invalid or revoked API key."],
       [cls |-> ExcName("RateLimitError", present), ok |-> TRUE,
        msg |-> "Key is valid, but you are rate-limited right now."],
       [cls |-> ExcName("APIConnectionError", present), ok |-> FALSE,
        msg |-> "Could not reach OpenAI (network/connectivity issue)."],
       [cls |-> ExcName("APIError", present), ok |-> FALSE,
        msg |-> "OpenAI API error while validating key"],
       [cls |-> ExcName("OpenAIError", present), ok |-> FALSE,
        msg |-> "OpenAI error while validating key"],
       [cls |-> "Exception", ok |-> FALSE,
        msg |-> "Unexpected error while validating key"] >>

\* app.py:65-66
ValidateReject ==
    /\ vpc = "start"
    /\ ~looks_like_openai_key(v_key)
    /\ v_ret' = [ok |-> FALSE, msg |-> "Key format looks incorrect."]
    /\ vpc' = "done"
    /\ UNCHANGED <<v_key, v_present, v_outcome, v_client, v_calls, v_exc, v_escaped>>

\* app.py:68 with _get_client (app.py:58-61)
ValidateGetClient ==
    /\ vpc = "start"
    /\ looks_like_openai_key(v_key)
    /\ IF v_present
       THEN vpc' = "list" /\ v_client' = TRUE /\ v_exc' = v_exc
       ELSE /\ vpc' = "except"
            /\ v_client' = v_client
            /\ v_exc' = [type |-> "RuntimeError",
                         msg |-> "openai package is not installed"]
    /\ UNCHANGED <<v_key, v_present, v_outcome, v_calls, v_ret, v_escaped>>

\* app.py:69-70
ValidateList ==
    /\ vpc = "list"
    /\ v_calls' = v_calls + 1
    /\ IF v_outcome = "ok"
       THEN /\ v_ret' = [ok |-> TRUE, msg |-> "Key validated successfully."]
            /\ vpc' = "done"
            /\ v_exc' = v_exc
       ELSE /\ v_exc' = [type |-> v_outcome, msg |-> "provider"]
            /\ vpc' = "except"
            /\ v_ret' = v_ret
    /\ UNCHANGED <<v_key, v_present, v_outcome, v_client, v_escaped>>

\* app.py:71-82
ValidateExcept ==
    /\ vpc = "except"
    /\ LET cl == ValidateClauses(v_present)
           i  == FirstMatch(cl, v_exc.type, 1)
       IN  IF i = 0
           THEN v_escaped' = TRUE /\ v_ret' = v_ret
           ELSE v_escaped' = v_escaped /\ v_ret' = [ok |-> cl[i].ok, msg |-> cl[i].msg]
    /\ vpc' = "done"
    /\ UNCHANGED <<v_key, v_present, v_outcome, v_client, v_calls, v_exc>>

(***************************************************************************)
(* JSON values as json.loads returns them.  A number literal without       *)
(* fraction or exponent is a Python int m * 10^e of unbounded size; any    *)
(* other number is a float, finite (h hundredths) or nan / inf / -inf      *)
(* (json.loads accepts NaN, Infinity, and 1e400 reads as inf).             *)
(***************************************************************************)
JMissing == [t |-> "missing"]
JNull == [t |-> "null"]
JBool(b) == [t |-> "bool", b |-> b]
JStr(s) == [t |-> "str", s |-> s]
JInt(m, e) == [t |-> "int", m |-> m, e |-> e]
Fin(h) == [sp |-> "fin", h |-> h]
NaN == [sp |-> "nan", h |-> 0]
PosInf == [sp |-> "inf", h |-> 0]
NegInf == [sp |-> "-inf", h |-> 0]
JFloat(f) == [t |-> "float", f |-> f]
JList(items) == [t |-> "list", items |-> items]
JEmptyDict == [t |-> "dict"]
JObject(sentiment, confidence, explanation, key_phrases) ==
    [t |-> "object", sentiment |-> sentiment, confidence |-> confidence,
     explanation |-> explanation, key_phrases |-> key_phrases]

\* dict.get(name, default) on the parsed reply; JMissing stands for "use the
\* default".
Get(data, name) ==
    CASE name = "sentiment"   -> data.sentiment
      [] name = "confidence"  -> data.confidence
      [] name = "explanation" -> data.explanation
      [] name = "key_phrases" -> data.key_phrases

\* sys.float_info.max_10_exp: 10^e is beyond the largest float when e > 308.
DBL_MAX_10_EXP == 308

DigitChar(d) ==
    CASE d = 0 -> "0" [] d = 1 -> "1" [] d = 2 -> "2" [] d = 3 -> "3"
      [] d = 4 -> "4" [] d = 5 -> "5" [] d = 6 -> "6" [] d = 7 -> "7"
      [] d = 8 -> "8" [] d = 9 -> "9"

DigitVal(c) ==
    CASE c = "0" -> 0 [] c = "1" -> 1 [] c = "2" -> 2 [] c = "3" -> 3
      [] c = "4" -> 4 [] c = "5" -> 5 [] c = "6" -> 6 [] c = "7" -> 7
      [] c = "8" -> 8 [] c = "9" -> 9 [] OTHER -> -1

RECURSIVE NatChars(_)
NatChars(n) == IF n < 10 THEN <<DigitChar(n)>>
               ELSE NatChars(n \div 10) \o <<DigitChar(n % 10)>>

IntChars(n) == IF n < 0 THEN <<"-">> \o NatChars(-n) ELSE NatChars(n)

\* str() of a float: repr with the shortest fraction, at least one digit.
FloatChars(f) ==
    CASE f.sp = "nan"  -> <<"n","a","n">>
      [] f.sp = "inf"  -> <<"i","n","f">>
      [] f.sp = "-inf" -> <<"-","i","n","f">>
      [] OTHER ->
            LET a    == IF f.h < 0 THEN -f.h ELSE f.h
                sign == IF f.h < 0 THEN <<"-">> ELSE <<>>
                frac == IF a % 10 = 0 THEN <<DigitChar((a % 100) \div 10)>>
                        ELSE <<DigitChar((a % 100) \div 10), DigitChar(a % 10)>>
            IN  sign \o NatChars(a \div 100) \o <<".">> \o frac

RECURSIVE PyRepr(_)
RECURSIVE JoinRepr(_)
JoinRepr(items) ==
    IF items = <<>> THEN <<>>
    ELSE IF Len(items) = 1 THEN PyRepr(items[1])
    ELSE PyRepr(items[1]) \o <<",", " ">> \o JoinRepr(Tail(items))

\* repr(x); str(x) differs from it only for a str.
PyRepr(v) ==
    CASE v.t = "str"   -> <<"'">> \o v.s \o <<"'">>
      [] v.t = "int"   -> IF v.m = 0 THEN <<"0">> ELSE IntChars(v.m) \o Rep("0", v.e)
      [] v.t = "float" -> FloatChars(v.f)
      [] v.t = "null"  -> <<"N","o","n","e">>
      [] v.t = "bool"  -> IF v.b THEN <<"T","r","u","e">> ELSE <<"F","a","l","s","e">>
      [] v.t = "list"  -> <<"[">> \o JoinRepr(v.items) \o <<"]">>
      [] v.t = "dict"  -> <<"{", "}">>

PyStr(v) == IF v.t = "str" THEN v.s ELSE PyRepr(v)

(***************************************************************************)
(* float(x) (app.py:133).  The result is [exc, f]: exc is "none" or the    *)
(* name of the exception float() raises.                                   *)
(***************************************************************************)
IsDigits(s) == s /= <<>> /\ \A i \in 1..Len(s) : DigitVal(s[i]) >= 0

RECURSIVE DigitsVal(_)
DigitsVal(s) == IF s = <<>> THEN 0
                ELSE 10 * DigitsVal(SubSeq(s, 1, Len(s) - 1)) + DigitVal(s[Len(s)])

Dots(s) == {i \in 1..Len(s) : s[i] = "."}

\* Unsigned decimal literal with at most two fraction digits, in hundredths;
\* -1 when s is not such a literal.
DecimalHundredths(s) ==
    IF Dots(s) = {}
    THEN IF IsDigits(s) THEN 100 * DigitsVal(s) ELSE -1
    ELSE IF Cardinality(Dots(s)) > 1 THEN -1
    ELSE LET d  == CHOOSE i \in Dots(s) : TRUE
             ip == SubSeq(s, 1, d - 1)
             fp == SubSeq(s, d + 1, Len(s))
         IN  IF (ip = <<>> /\ fp = <<>>) \/ Len(fp) > 2 THEN -1
             ELSE IF (ip /= <<>> /\ ~IsDigits(ip)) \/ (fp /= <<>> /\ ~IsDigits(fp)) THEN -1
             ELSE 100 * DigitsVal(ip)
                  + (IF Len(fp) = 1 THEN 10 * DigitsVal(fp) ELSE DigitsVal(fp))

FloatOfStr(raw) ==
    LET s    == Strip(raw)
        neg  == s /= <<>> /\ Head(s) = "-"
        body == IF s /= <<>> /\ Head(s) \in {"-", "+"} THEN Tail(s) ELSE s
        low  == Lower(body)
    IN  IF low = <<"n","a","n">> THEN [exc |-> "none", f |-> NaN]
        ELSE IF low \in { <<"i","n","f">>, <<"i","n","f","i","n","i","t","y">> }
             THEN [exc |-> "none", f |-> IF neg THEN NegInf ELSE PosInf]
        ELSE IF DecimalHundredths(body) >= 0
             THEN [exc |-> "none",
                   f |-> Fin(IF neg THEN -DecimalHundredths(body) ELSE DecimalHundredths(body))]
        ELSE [exc |-> "ValueError", f |-> Fin(0)]

PyFloat(v) ==
    CASE v.t = "float" -> [exc |-> "none", f |-> v.f]
      [] v.t = "int"   ->
            IF v.m /= 0 /\ v.e > DBL_MAX_10_EXP
            THEN [exc |-> "OverflowError", f |-> Fin(0)]
            ELSE [exc |-> "none", f |-> Fin(IF v.m = 0 THEN 0 ELSE 100 * v.m * (10 ^ v.e))]
      [] v.t = "bool"  -> [exc |-> "none", f |-> Fin(IF v.b THEN 100 ELSE 0)]
      [] v.t = "str"   -> FloatOfStr(v.s)
      [] OTHER         -> [exc |-> "TypeError", f |-> Fin(0)]

\* x < y on floats; every comparison with nan is false.
FloatLt(x, y) ==
    CASE x.sp = "nan" \/ y.sp = "nan" -> FALSE
      [] x.sp = "-inf" -> y.sp /= "-inf"
      [] x.sp = "inf"  -> FALSE
      [] y.sp = "inf"  -> TRUE
      [] y.sp = "-inf" -> FALSE
      [] OTHER         -> x.h < y.h

\* min(a, b) and max(a, b) as Python computes them: a unless b is smaller
\* (larger).
PyMin(a, b) == IF FloatLt(b, a) THEN b ELSE a
PyMax(a, b) == IF FloatLt(a, b) THEN b ELSE a

\* max(0.0, min(1.0, x)) (app.py:133)
Clamp(x) == PyMax(Fin(0), PyMin(Fin(100), x))

(***************************************************************************)
(* Program constants (app.py:24-35).                                       *)
(***************************************************************************)
Positive == <<"P","o","s","i","t","i","v","e">>
Negative == <<"N","e","g","a","t","i","v","e">>
Neutral == <<"N","e","u","t","r","a","l">>
Mixed == <<"M","i","x","e","d">>

SENTIMENT_LABELS == {Positive, Negative, Neutral, Mixed}

RECOMMENDED_MODELS ==
    { <<"g","p","t","-","5">>, <<"g","p","t","-","5","-","m","i","n","i">>,
      <<"g","p","t","-","4",".","1">>, <<"g","p","t","-","4",".","1","-","m","i","n","i">>,
      <<"g","p","t","-","4","o">>, <<"g","p","t","-","4","o","-","m","i","n","i">> }

MAX_KEY_PHRASES == 12

(***************************************************************************)
(* analyze_sentiment: temperature policy (app.py:95-112).                  *)
(***************************************************************************)
\* The same test without .lower().
is_reasoning_model_cased(model) ==
    StartsWith(model, <<"g","p","t","-","5">>)
        \/ Contains(model, <<"r","e","a","s","o","n","i","n","g">>)

is_reasoning_model(model) ==
    StartsWith(Lower(model), <<"g","p","t","-","5">>)
        \/ Contains(Lower(model), <<"r","e","a","s","o","n","i","n","g">>)

(***************************************************************************)
(* The completion text is a sequence of tokens: "{" and "}" are the brace  *)
(* characters, "M" is the member list of the reply object (the text        *)
(* between the braces of a JSON object), "p" is prose without braces, "v"  *)
(* is a complete JSON value that is not an object (such as 42), and " "    *)
(* is whitespace.                                                          *)
(***************************************************************************)
NoWs(s) == SelectSeq(s, LAMBDA c : c \notin Whitespace)

\* json.loads(text): obj is the object that the member list "M" denotes.
\* Result [ok, data]; ok = FALSE stands for json.JSONDecodeError.
JsonLoads(text, obj) ==
    LET t == NoWs(text)
    IN  IF t = <<"{", "M", "}">> THEN [ok |-> TRUE, data |-> obj]
        ELSE IF t = <<"{", "}">>
             THEN [ok |-> TRUE, data |-> JObject(JMissing, JMissing, JMissing, JMissing)]
        ELSE IF t = <<"v">> THEN [ok |-> TRUE, data |-> JInt(42, 0)]
        ELSE [ok |-> FALSE, data |-> JNull]

\* str.find / str.rfind of a one-character pattern: 0-based index or -1.
Find(s, c) ==
    IF \E i \in 1..Len(s) : s[i] = c
    THEN (CHOOSE i \in 1..Len(s) : s[i] = c /\ \A j \in 1..(i - 1) : s[j] /= c) - 1
    ELSE -1

RFind(s, c) ==
    IF \E i \in 1..Len(s) : s[i] = c
    THEN (CHOOSE i \in 1..Len(s) : s[i] = c /\ \A j \in (i + 1)..Len(s) : s[j] /= c) - 1
    ELSE -1

\* s[start : stop] for 0 <= start <= stop
Slice(s, start, stop) == SubSeq(s, start + 1, IF stop > Len(s) THEN Len(s) ELSE stop)

MsgNoJson == "Model did not return JSON."
MsgBadLabel == "Unexpected sentiment label"

\* app.py:119-127 with the whole text handed to the second json.loads.
ParseContentNoSpan(resp) ==
    LET content == Strip(IF resp.has_content THEN resp.content ELSE <<>>)
        direct  == JsonLoads(content, resp.obj)
    IN  IF direct.ok THEN [exc |-> NoExc, data |-> direct.data]
        ELSE [exc |-> [type |-> "ValueError", msg |-> MsgNoJson], data |-> JNull]

\* app.py:119-127.  Result [exc, data].
ParseContent(resp) ==
    LET content == Strip(IF resp.has_content THEN resp.content ELSE <<>>)
        direct  == JsonLoads(content, resp.obj)
        start   == Find(content, "{")
        end     == RFind(content, "}")
        span    == JsonLoads(Slice(content, start, end + 1), resp.obj)
    IN  IF direct.ok THEN [exc |-> NoExc, data |-> direct.data]
        ELSE IF start = -1 \/ end = -1 \/ end <= start
             THEN [exc |-> [type |-> "ValueError", msg |-> MsgNoJson], data |-> JNull]
        ELSE IF span.ok THEN [exc |-> NoExc, data |-> span.data]
        ELSE [exc |-> [type |-> "JSONDecodeError", msg |-> "json"], data |-> JNull]

(***************************************************************************)
(* analyze_sentiment: building the result (app.py:129-140).                *)
(***************************************************************************)
NoResult == [none |-> TRUE]

\* A label outside SENTIMENT_LABELS is replaced by Neutral.
SentimentOfDefaulting(data) ==
    LET s == IF Get(data, "sentiment") = JMissing THEN <<>>
             ELSE Strip(PyStr(Get(data, "sentiment")))
    IN  IF s \in SENTIMENT_LABELS THEN s ELSE Neutral

\* app.py:129
SentimentOf(data) ==
    IF Get(data, "sentiment") = JMissing THEN <<>>
    ELSE Strip(PyStr(Get(data, "sentiment")))

\* app.py:133.  Result [exc, f].
ConfidenceOf(data) ==
    LET v == Get(data, "confidence")
        r == IF v = JMissing THEN [exc |-> "none", f |-> Fin(0)] ELSE PyFloat(v)
    IN  IF r.exc /= "none" THEN r ELSE [exc |-> "none", f |-> Clamp(r.f)]

\* app.py:134
ExplanationOf(data) ==
    IF Get(data, "explanation") = JMissing THEN <<>>
    ELSE Strip(PyStr(Get(data, "explanation")))

RECURSIVE StripNonEmpty(_)
StripNonEmpty(items) ==
    IF items = <<>> THEN <<>>
    ELSE LET x == Strip(PyStr(Head(items)))
         IN  IF x /= <<>> THEN <<x>> \o StripNonEmpty(Tail(items))
             ELSE StripNonEmpty(Tail(items))

\* Truncation before the empty entries are dropped.
KeyPhrasesOfCutFirst(data) ==
    LET kp == Get(data, "key_phrases")
    IN  IF kp.t /= "list" THEN <<>>
        ELSE StripNonEmpty(Slice(kp.items, 0, MAX_KEY_PHRASES))

\* app.py:135-138
KeyPhrasesOf(data) ==
    LET kp == Get(data, "key_phrases")
    IN  IF kp.t /= "list" THEN <<>>
        ELSE Slice(StripNonEmpty(kp.items), 0, MAX_KEY_PHRASES)

\* app.py:129-140.  Result [exc, result].  data.get raises AttributeError
\* when the parsed value is not a dict.
BuildResult(data) ==
    IF data.t /= "object"
    THEN [exc |-> [type |-> "AttributeError", msg |-> "get"], result |-> NoResult]
    ELSE IF SentimentOf(data) \notin SENTIMENT_LABELS
    THEN [exc |-> [type |-> "ValueError", msg |-> MsgBadLabel], result |-> NoResult]
    ELSE IF ConfidenceOf(data).exc /= "none"
    THEN [exc |-> [type |-> ConfidenceOf(data).exc, msg |-> "float"], result |-> NoResult]
    ELSE [exc |-> NoExc,
          result |-> [sentiment   |-> SentimentOf(data),
                      confidence  |-> ConfidenceOf(data).f,
                      explanation |-> ExplanationOf(data),
                      key_phrases |-> KeyPhrasesOf(data)]]

(***************************************************************************)
(* Inputs: credentials, model identifiers and provider behaviour.          *)
(***************************************************************************)
KeyHeads ==
    KeyPrefixes \cup { <<>>, <<"S","K","-">>, <<"s","k">> }

KeyBodies ==
    {Rep("x", n) : n \in 0..MaxKeyBody} \cup {<<"\n">> \o Rep("x", n) : n \in 0..2}

KeyPads == { <<>>, <<" ">> }

Keys == {l \o h \o b \o r : l \in KeyPads, h \in KeyHeads, b \in KeyBodies, r \in KeyPads}

Models ==
    RECOMMENDED_MODELS \cup
    { <<"G","P","T","-","5">>, <<"G","p","t","-","5","-","M","i","n","i">>, <<"g","p","t","5">>, <<"x","g","p","t","-","5">>,
      <<"o","1","-","r","e","a","s","o","n","i","n","g">>, <<"m","y","-","R","e","a","s","o","n","i","n","g","-","x">>, <<"r","e","a","s","o","n">> }

\* Exceptions chat.completions.create() can raise.
CreateRaises ==
    {"AuthenticationError", "RateLimitError", "APIConnectionError",
     "APITimeoutError", "APIStatusError", "OpenAIError", "Exception"}

Raise(t) ==
    [kind |-> "raise", exc |-> t, choices |-> 0, has_content |-> FALSE,
     content |-> <<>>, obj |-> JNull, reasoning |-> "absent"]

\* A response whose first choice carries the given text; reasoning is "absent"
\* (no reasoning_content attribute), "empty" or "trace".
Reply(content, obj, reasoning) ==
    [kind |-> "ok", exc |-> "none", choices |-> 1, has_content |-> TRUE,
     content |-> content, obj |-> obj, reasoning |-> reasoning]

ObjectText == <<"{", "M", "}">>

BaseObj ==
    JObject(JStr(Mixed), JFloat(Fin(73)), JStr(<<" ", "o", "k", " ">>),
            JList(<<JStr(<<"a">>), JStr(<<"b">>)>>))

Tokens == {"{", "}", "M", "p"}

Shapes == UNION {[1..k -> Tokens] : k \in 0..MaxContentLen}

ContentReplies ==
    {Reply(s, BaseObj, "absent") : s \in Shapes}
    \cup {Reply(<<" ">> \o s \o <<"\n">>, BaseObj, "absent") : s \in Shapes}
    \cup {Reply(s, BaseObj, "absent") : s \in { <<"v">>, <<"p", "v">>, <<" ", "v">> }}
    \cup {[Reply(<<>>, BaseObj, "absent") EXCEPT !.has_content = FALSE],
          [Reply(<<>>, BaseObj, "absent") EXCEPT !.choices = 0]}
    \cup {Reply(ObjectText, BaseObj, r) : r \in {"empty", "trace"}}

SentimentValues ==
    {JStr(l) : l \in SENTIMENT_LABELS}
    \cup {JStr(<<" ">> \o l) : l \in SENTIMENT_LABELS}
    \cup {JStr(Positive \o <<"\n">>), JStr(Lower(Positive)), JStr(<<"A","n","g","r","y">>),
          JStr(<<>>), JStr(<<" ">>), JMissing, JNull, JInt(1, 0), JBool(TRUE),
          JList(<<JStr(Positive)>>), JEmptyDict}

LabelReplies ==
    {Reply(c, [BaseObj EXCEPT !.sentiment = v], "absent") :
        c \in {ObjectText, <<"p", "{", "M", "}">>}, v \in SentimentValues}

ConfidenceValues ==
    {JFloat(Fin(h)) : h \in {-150, -20, -1, 0, 1, 50, 73, 99, 100, 101, 150, 250}}
    \cup {JFloat(NaN), JFloat(PosInf), JFloat(NegInf)}
    \cup {JInt(m, 0) : m \in -2..2}
    \cup {JInt(m, 400) : m \in {-1, 1, 3}}
    \cup {JStr(<<"h","i","g","h">>), JStr(<<"0",".","9">>), JStr(<<" ", "1", " ">>), JStr(<<>>),
          JStr(<<"n","a","n">>), JStr(<<"-","5">>), JStr(<<"1",".","5">>), JStr(<<"1",".","2",".","3">>)}
    \cup {JMissing, JNull, JBool(TRUE), JBool(FALSE), JList(<<>>),
          JList(<<JFloat(Fin(50))>>), JEmptyDict}

ConfidenceReplies ==
    {Reply(ObjectText, [BaseObj EXCEPT !.confidence = v, !.sentiment = JStr(l)], "absent") :
        v \in ConfidenceValues, l \in {Positive, <<"A","n","g","r","y">>}}

PhraseElems ==
    {JStr(<<" ", "a">>), JStr(<<"b", " ">>), JStr(<<" ">>), JStr(<<>>), JInt(7, 0), JNull}

PhraseBases == UNION {[1..k -> PhraseElems] : k \in 1..MaxBaseLen}

RECURSIVE Times(_, _)
Times(base, r) == IF r = 0 THEN <<>> ELSE base \o Times(base, r - 1)

PhraseValues ==
    {JList(Times(b, r)) : b \in PhraseBases, r \in 1..MaxRepeat}
    \cup {JList(<<>>), JMissing, JNull, JStr(<<"a", " ", "b">>), JInt(3, 0), JEmptyDict}

PhraseReplies ==
    {Reply(ObjectText, [BaseObj EXCEPT !.key_phrases = v], "absent") : v \in PhraseValues}

Responses ==
    {Raise(t) : t \in CreateRaises}
    \cup ContentReplies \cup LabelReplies \cup ConfidenceReplies \cup PhraseReplies

(***************************************************************************)
(* validate_api_key as a process.                                          *)
(***************************************************************************)
AnalyzeIdle ==
    /\ apc = "idle"
    /\ a_model = <<>>
    /\ a_resp = Raise("none")
    /\ a_calls = 0
    /\ a_temp = -1
    /\ a_data = JNull
    /\ a_exc = NoExc
    /\ a_result = NoResult
    /\ a_reasoning = ""
    /\ a_shown = NoResult
    /\ a_handler = "none"
    /\ a_escaped = FALSE
    /\ key_valid = FALSE

SessionIdle ==
    /\ api_key = <<>>
    /\ key_status = ""
    /\ input_text = <<>>
    /\ s_action = "none"
    /\ s_disabled = "unset"
    /\ s_error = ""

ValidateIdle ==
    /\ vpc = "idle"
    /\ v_key = <<>>
    /\ v_present = TRUE
    /\ v_outcome = "ok"
    /\ v_client = FALSE
    /\ v_calls = 0
    /\ v_exc = NoExc
    /\ v_ret = NoRet
    /\ v_escaped = FALSE

InitValidate ==
    /\ vpc = "start"
    /\ v_key \in Keys
    /\ v_present \in BOOLEAN
    /\ v_outcome \in ListOutcomes
    /\ v_client = FALSE
    /\ v_calls = 0
    /\ v_exc = NoExc
    /\ v_ret = NoRet
    /\ v_escaped = FALSE
    /\ AnalyzeIdle
    /\ SessionIdle

NextValidate ==
    \/ ValidateReject /\ UNCHANGED <<avars, svars>>
    \/ ValidateGetClient /\ UNCHANGED <<avars, svars>>
    \/ ValidateList /\ UNCHANGED <<avars, svars>>
    \/ ValidateExcept /\ UNCHANGED <<avars, svars>>

SpecValidate == InitValidate /\ [][NextValidate]_vars

(***************************************************************************)
(* The Analyze branch of main() (app.py:305-359) calling analyze_sentiment *)
(* (app.py:85-140).  The button is enabled only while key_valid is true    *)
(* (app.py:285-288), and validate_api_key returns true only when the       *)
(* openai package was imported, so _get_client succeeds here.              *)
(***************************************************************************)
OPENAI_PRESENT == TRUE

NoTemp == -1

InitAnalyze ==
    /\ apc = "start"
    /\ a_model \in Models
    /\ a_resp = Raise("none")
    /\ a_calls = 0
    /\ a_temp = NoTemp
    /\ a_data = JNull
    /\ a_exc = NoExc
    /\ a_result = NoResult
    /\ a_reasoning = ""
    /\ a_shown = NoResult
    /\ a_handler = "none"
    /\ a_escaped = FALSE
    /\ key_valid = TRUE
    /\ ValidateIdle
    /\ SessionIdle

\* app.py:306-307, 86-97
AnalyzeEnter ==
    /\ apc = "start"
    /\ key_valid
    /\ apc' = "create"
    /\ UNCHANGED <<a_model, a_resp, a_calls, a_temp, a_data, a_exc, a_result,
                   a_reasoning, a_shown, a_handler, a_escaped, key_valid>>

\* The same call wrapped in a retry: a request that raises is issued a
\* second time.
CreateCompletionRetry(temperature) ==
    /\ apc = "create"
    /\ a_temp' = temperature
    /\ \E r \in Responses :
          /\ a_resp' = r
          /\ a_calls' = a_calls + (IF r.kind = "raise" THEN 2 ELSE 1)
          /\ IF r.kind = "raise"
             THEN apc' = "except" /\ a_exc' = [type |-> r.exc, msg |-> "provider"]
             ELSE apc' = "parse" /\ a_exc' = a_exc
    /\ UNCHANGED <<a_model, a_data, a_result, a_reasoning, a_shown, a_handler,
                   a_escaped, key_valid>>

\* One call of client.chat.completions.create with the given temperature:
\* the provider answers or the call raises.
CreateCompletion(temperature) ==
    /\ apc = "create"
    /\ a_calls' = a_calls + 1
    /\ a_temp' = temperature
    /\ \E r \in Responses :
          /\ a_resp' = r
          /\ IF r.kind = "raise"
             THEN apc' = "except" /\ a_exc' = [type |-> r.exc, msg |-> "provider"]
             ELSE apc' = "parse" /\ a_exc' = a_exc
    /\ UNCHANGED <<a_model, a_data, a_result, a_reasoning, a_shown, a_handler,
                   a_escaped, key_valid>>

\* app.py:99-105
CreateReasoning ==
    /\ is_reasoning_model(a_model)
    /\ CreateCompletion(1)

\* app.py:106-112
CreateStandard ==
    /\ ~is_reasoning_model(a_model)
    /\ CreateCompletion(0)

\* app.py:114-127; resp.choices[0] raises IndexError on an empty list.
AnalyzeParse ==
    /\ apc = "parse"
    /\ IF a_resp.choices = 0
       THEN /\ a_exc' = [type |-> "IndexError", msg |-> "list index out of range"]
            /\ apc' = "except"
            /\ UNCHANGED <<a_data, a_reasoning>>
       ELSE /\ a_reasoning' = IF a_resp.reasoning = "trace" THEN "trace" ELSE ""
            /\ LET r == ParseContent(a_resp)
               IN  IF r.exc = NoExc
                   THEN a_data' = r.data /\ a_exc' = a_exc /\ apc' = "build"
                   ELSE a_data' = a_data /\ a_exc' = r.exc /\ apc' = "except"
    /\ UNCHANGED <<a_model, a_resp, a_calls, a_temp, a_result, a_shown, a_handler,
                   a_escaped, key_valid>>

\* app.py:129-140
AnalyzeBuild ==
    /\ apc = "build"
    /\ LET r == BuildResult(a_data)
       IN  IF r.exc = NoExc
           THEN a_result' = r.result /\ a_exc' = a_exc /\ apc' = "show"
           ELSE a_result' = a_result /\ a_exc' = r.exc /\ apc' = "except"
    /\ UNCHANGED <<a_model, a_resp, a_calls, a_temp, a_data, a_reasoning, a_shown,
                   a_handler, a_escaped, key_valid>>

\* app.py:309-347
AnalyzeShow ==
    /\ apc = "show"
    /\ a_shown' = a_result
    /\ apc' = "done"
    /\ UNCHANGED <<a_model, a_resp, a_calls, a_temp, a_data, a_exc, a_result,
                   a_reasoning, a_handler, a_escaped, key_valid>>

\* The except clauses of main() without the final "except Exception".
MainClausesNoCatchAll(present) ==
    << [cls |-> ExcName("AuthenticationError", present), invalidates |-> TRUE],
       [cls |-> ExcName("RateLimitError", present), invalidates |-> FALSE],
       [cls |-> ExcName("APIConnectionError", present), invalidates |-> FALSE],
       [cls |-> ExcName("APIError", present), invalidates |-> FALSE] >>

\* app.py:349-359; invalidates: the clause sets key_valid to False.
MainClauses(present) ==
    << [cls |-> ExcName("AuthenticationError", present), invalidates |-> TRUE],
       [cls |-> ExcName("RateLimitError", present), invalidates |-> FALSE],
       [cls |-> ExcName("APIConnectionError", present), invalidates |-> FALSE],
       [cls |-> ExcName("APIError", present), invalidates |-> FALSE],
       [cls |-> "Exception", invalidates |-> FALSE] >>

\* app.py:349-359
AnalyzeExcept ==
    /\ apc = "except"
    /\ LET cl == MainClauses(OPENAI_PRESENT)
           i  == FirstMatch(cl, a_exc.type, 1)
       IN  IF i = 0
           THEN a_escaped' = TRUE /\ a_handler' = a_handler /\ key_valid' = key_valid
           ELSE /\ a_escaped' = a_escaped
                /\ a_handler' = cl[i].cls
                /\ key_valid' = IF cl[i].invalidates THEN FALSE ELSE key_valid
    /\ apc' = "done"
    /\ UNCHANGED <<a_model, a_resp, a_calls, a_temp, a_data, a_exc, a_result,
                   a_reasoning, a_shown>>

NextAnalyze ==
    \/ AnalyzeEnter /\ UNCHANGED <<vvars, svars>>
    \/ CreateReasoning /\ UNCHANGED <<vvars, svars>>
    \/ CreateStandard /\ UNCHANGED <<vvars, svars>>
    \/ AnalyzeParse /\ UNCHANGED <<vvars, svars>>
    \/ AnalyzeBuild /\ UNCHANGED <<vvars, svars>>
    \/ AnalyzeShow /\ UNCHANGED <<vvars, svars>>
    \/ AnalyzeExcept /\ UNCHANGED <<vvars, svars>>

SpecAnalyze == InitAnalyze /\ [][NextAnalyze]_vars

(***************************************************************************)
(* The session: one run of main() (app.py:143-372) per user action.  The   *)
(* key box is created with value=st.session_state.api_key, so it returns   *)
(* the stored key unless the user has typed another one; the text area is  *)
(* bound to st.session_state.input_text; at most one button is clicked in  *)
(* a run.                                                                   *)
(***************************************************************************)
DEFAULT_MODEL == <<"g","p","t","-","4","o">>

MIN_TEXT_LEN == 10

MaxTextLen == 10

ExamplePositive ==
    <<"I","'","m"," ","g","e","n","u","i","n","e","l","y"," ","i","m","p",
      "r","e","s","s","e","d"," ","b","y"," ","h","o","w"," ","q","u","i",
      "c","k","l","y"," ","t","h","e"," ","t","e","a","m"," ","r","e","s",
      "o","l","v","e","d"," ","m","y"," ","i","s","s","u","e","."," ","T",
      "h","e"," ","s","u","p","p","o","r","t"," ","a","g","e","n","t"," ",
      "w","a","s"," ","p","a","t","i","e","n","t",","," ","c","l","e","a",
      "r",","," ","a","n","d"," ","f","o","l","l","o","w","e","d"," ","u",
      "p"," ","t","o"," ","e","n","s","u","r","e"," ","e","v","e","r","y",
      "t","h","i","n","g"," ","w","o","r","k","e","d",".">>

ExampleNegative ==
    <<"I","'","m"," ","f","r","u","s","t","r","a","t","e","d"," ","b","e",
      "c","a","u","s","e"," ","t","h","e"," ","d","e","l","i","v","e","r",
      "y"," ","w","a","s"," ","t","w","o"," ","d","a","y","s"," ","l","a",
      "t","e"," ","a","n","d"," ","t","h","e"," ","p","a","c","k","a","g",
      "e"," ","a","r","r","i","v","e","d"," ","d","a","m","a","g","e","d",
      "."," ","C","u","s","t","o","m","e","r"," ","s","u","p","p","o","r",
      "t"," ","k","e","p","t"," ","m","e"," ","w","a","i","t","i","n","g",
      " ","a","n","d"," ","d","i","d","n","'","t"," ","p","r","o","v","i",
      "d","e"," ","a"," ","c","l","e","a","r"," ","r","e","s","o","l","u",
      "t","i","o","n",".">>

ExampleNeutral ==
    <<"T","h","e"," ","m","e","e","t","i","n","g"," ","i","s"," ","s","c",
      "h","e","d","u","l","e","d"," ","f","o","r"," ","3"," ","P","M"," ",
      "t","o","m","o","r","r","o","w","."," ","P","l","e","a","s","e"," ",
      "s","h","a","r","e"," ","t","h","e"," ","u","p","d","a","t","e","d",
      " ","a","g","e","n","d","a"," ","a","n","d"," ","t","h","e"," ","f",
      "i","n","a","l"," ","s","l","i","d","e"," ","d","e","c","k"," ","w",
      "h","e","n"," ","y","o","u"," ","c","a","n",".">>

ExampleMixed ==
    <<"T","h","e"," ","p","r","o","d","u","c","t"," ","q","u","a","l","i",
      "t","y"," ","i","s"," ","e","x","c","e","l","l","e","n","t"," ","a",
      "n","d"," ","t","h","e"," ","d","e","s","i","g","n"," ","l","o","o",
      "k","s"," ","p","r","e","m","i","u","m",","," ","b","u","t"," ","t",
      "h","e"," ","s","e","t","u","p"," ","p","r","o","c","e","s","s"," ",
      "w","a","s"," ","c","o","n","f","u","s","i","n","g"," ","a","n","d",
      " ","t","h","e"," ","i","n","s","t","r","u","c","t","i","o","n","s",
      " ","w","e","r","e"," ","m","i","s","s","i","n","g"," ","k","e","y",
      " ","s","t","e","p","s",".">>

\* app.py:37-42
EXAMPLES ==
    [l \in {"Positive", "Negative", "Neutral", "Mixed"} |->
        CASE l = "Positive" -> ExamplePositive
          [] l = "Negative" -> ExampleNegative
          [] l = "Neutral"  -> ExampleNeutral
          [] l = "Mixed"    -> ExampleMixed]

\* What the user can type into the key box and into the text area.
SessionKeys ==
    { <<>>, <<" ">>, <<"s","k","-">>, <<"s","k","-","a">>, <<"r","k","-","b">> }

TextLens == {0, 1} \cup ((MIN_TEXT_LEN - 1)..MaxTextLen)

Texts ==
    {Rep("t", n) : n \in TextLens} \cup {<<" ">> \o Rep("t", n) \o <<" ">> : n \in TextLens}

\* What the provider can answer to the completion request of a session run.
SessionResponses ==
    {Raise(t) : t \in CreateRaises}
    \cup {Reply(ObjectText, BaseObj, "absent"),
          Reply(<<"p">>, BaseObj, "absent"),
          Reply(ObjectText, [BaseObj EXCEPT !.sentiment = JStr(<<"A","n","g","r","y">>)], "absent"),
          Reply(ObjectText, [BaseObj EXCEPT !.confidence = JNull], "absent")}

\* The return value of validate_api_key once the except clause i of cl (0:
\* none) is known for the exception raised.
ValidateReturn(key, present, outcome, cl, i) ==
    IF ~looks_like_openai_key(key)
    THEN [ok |-> FALSE, msg |-> "Key format looks incorrect.", calls |-> 0,
          client |-> FALSE, escaped |-> FALSE]
    ELSE IF present /\ outcome = "ok"
    THEN [ok |-> TRUE, msg |-> "Key validated successfully.", calls |-> 1,
          client |-> TRUE, escaped |-> FALSE]
    ELSE IF i = 0
    THEN [ok |-> FALSE, msg |-> "none", calls |-> IF present THEN 1 ELSE 0,
          client |-> present, escaped |-> TRUE]
    ELSE [ok |-> cl[i].ok, msg |-> cl[i].msg, calls |-> IF present THEN 1 ELSE 0,
          client |-> present, escaped |-> FALSE]

\* validate_api_key (app.py:64-82) as a function of its argument, of the
\* import having succeeded and of what models.list() does; without the
\* package _get_client raises RuntimeError before any call.
validate_api_key(key, present, outcome) ==
    ValidateReturn(key, present, outcome, ValidateClauses(present),
                   FirstMatch(ValidateClauses(present),
                              IF present THEN outcome ELSE "RuntimeError", 1))

\* What analyze_sentiment does once the request has been answered by resp:
\* parsed is the outcome of app.py:119-127, built that of app.py:129-140.
AnalyzeOutcome(temp, resp, trace, parsed, built) ==
    IF resp.kind = "raise"
    THEN [temp |-> temp, exc |-> [type |-> resp.exc, msg |-> "provider"],
          data |-> JNull, result |-> NoResult, reasoning |-> ""]
    ELSE IF resp.choices = 0
    THEN [temp |-> temp, exc |-> [type |-> "IndexError", msg |-> "list index out of range"],
          data |-> JNull, result |-> NoResult, reasoning |-> ""]
    ELSE IF parsed.exc /= NoExc
    THEN [temp |-> temp, exc |-> parsed.exc, data |-> JNull, result |-> NoResult,
          reasoning |-> trace]
    ELSE IF built.exc /= NoExc
    THEN [temp |-> temp, exc |-> built.exc, data |-> parsed.data, result |-> NoResult,
          reasoning |-> trace]
    ELSE [temp |-> temp, exc |-> NoExc, data |-> parsed.data, result |-> built.result,
          reasoning |-> trace]

\* analyze_sentiment (app.py:85-140) as a function of the model and of what
\* chat.completions.create() does: [temp, exc, data, result, reasoning].
analyze_sentiment(model, resp) ==
    AnalyzeOutcome(IF is_reasoning_model(model) THEN 1 ELSE 0, resp,
                   IF resp.reasoning = "trace" THEN "trace" ELSE "",
                   ParseContent(resp), BuildResult(ParseContent(resp).data))

InitSession ==
    /\ api_key = <<>>
    /\ key_valid = FALSE
    /\ key_status = ""
    /\ input_text = <<>>
    /\ s_action = "none"
    /\ s_disabled = "unset"
    /\ s_error = ""
    /\ a_model = DEFAULT_MODEL
    /\ apc = "idle"
    /\ a_resp = Raise("none")
    /\ a_calls = 0
    /\ a_temp = NoTemp
    /\ a_data = JNull
    /\ a_exc = NoExc
    /\ a_result = NoResult
    /\ a_reasoning = ""
    /\ a_shown = NoResult
    /\ a_handler = "none"
    /\ a_escaped = FALSE
    /\ vpc = "idle"
    /\ v_key = <<>>
    /\ v_present \in BOOLEAN
    /\ v_outcome = "none"
    /\ v_client = FALSE
    /\ v_calls = 0
    /\ v_exc = NoExc
    /\ v_ret = NoRet
    /\ v_escaped = FALSE

\* The run leaves no trace of a call of validate_api_key: the record of the
\* most recent call stays, the count of calls made by this run is 0.
NoValidation ==
    /\ v_calls' = 0
    /\ UNCHANGED <<vpc, v_key, v_present, v_outcome, v_client, v_exc, v_ret, v_escaped>>

\* The run does not enter the try block of app.py:305.
NoAnalysis ==
    /\ apc' = "idle"
    /\ a_resp' = Raise("none")
    /\ a_calls' = 0
    /\ a_temp' = NoTemp
    /\ a_data' = JNull
    /\ a_exc' = NoExc
    /\ a_result' = NoResult
    /\ a_reasoning' = ""
    /\ a_shown' = NoResult
    /\ a_handler' = "none"
    /\ a_escaped' = FALSE

\* app.py:231-235: Clear resets the stored key and st.rerun() starts the
\* script again; the second pass has no button clicked and reads the key box
\* with the stored (empty) key, so it changes nothing more.
RunCleared(t, m) ==
    /\ api_key' = <<>>
    /\ key_valid' = FALSE
    /\ key_status' = ""
    /\ input_text' = t
    /\ a_model' = m
    /\ s_action' = "clear"
    /\ s_disabled' = TRUE
    /\ s_error' = ""
    /\ NoValidation
    /\ NoAnalysis

\* app.py:305-359: the try block.  r is what analyze_sentiment does, cl the
\* except clauses and i the clause that matches the exception raised (0:
\* none).  Without the package _get_client raises before any request.
TryOutcome(present, resp, r, cl, i) ==
    IF ~present
    THEN [calls |-> 0, resp |-> Raise("none"), temp |-> NoTemp, data |-> JNull,
          exc |-> [type |-> "RuntimeError", msg |-> "openai package is not installed"],
          result |-> NoResult, reasoning |-> "", shown |-> NoResult,
          handler |-> IF i = 0 THEN "none" ELSE cl[i].cls, escaped |-> i = 0,
          invalidates |-> IF i = 0 THEN FALSE ELSE cl[i].invalidates]
    ELSE [calls |-> 1, resp |-> resp, temp |-> r.temp, data |-> r.data, exc |-> r.exc,
          result |-> r.result, reasoning |-> r.reasoning, shown |-> r.result,
          handler |-> IF r.exc = NoExc \/ i = 0 THEN "none" ELSE cl[i].cls,
          escaped |-> (r.exc /= NoExc /\ i = 0),
          invalidates |-> IF r.exc = NoExc \/ i = 0 THEN FALSE ELSE cl[i].invalidates]

TryBlock(present, model, resp) ==
    TryOutcome(present, resp, analyze_sentiment(model, resp), MainClauses(present),
               FirstMatch(MainClauses(present),
                          IF present THEN analyze_sentiment(model, resp).exc.type
                          ELSE "RuntimeError", 1))

\* app.py:293-359: the Analyze button returned True.  text is the stripped
\* input text, valid the key_valid flag at that point, try the outcome of
\* the try block.
AnalyzeClicked(text, valid, try) ==
    IF text = <<>> \/ Len(text) < MIN_TEXT_LEN
    THEN /\ s_error' = IF text = <<>> THEN "Please enter some text to analyze."
                       ELSE "Text is too short. Please enter at least 10 characters."
         /\ NoAnalysis
         /\ key_valid' = valid
    ELSE /\ s_error' = ""
         /\ apc' = "done"
         /\ a_calls' = try.calls
         /\ a_resp' = try.resp
         /\ a_temp' = try.temp
         /\ a_data' = try.data
         /\ a_exc' = try.exc
         /\ a_result' = try.result
         /\ a_reasoning' = try.reasoning
         /\ a_shown' = try.shown
         /\ a_handler' = try.handler
         /\ a_escaped' = try.escaped
         /\ key_valid' = IF try.invalidates THEN FALSE ELSE valid

\* app.py:242-249: the Validate button; vr is what validate_api_key returns
\* for the content k of the key box.
ValidateClicked(k, lo, vr) ==
    IF Strip(k) = <<>>
    THEN NoValidation
    ELSE /\ vpc' = "done"
         /\ v_key' = k
         /\ v_outcome' = IF vr.calls = 1 THEN lo ELSE "none"
         /\ v_client' = vr.client
         /\ v_calls' = vr.calls
         /\ v_ret' = [ok |-> vr.ok, msg |-> vr.msg]
         /\ v_escaped' = vr.escaped
         /\ UNCHANGED <<v_present, v_exc>>

\* app.py:237-240 without the reset of key_valid and key_status.
SidebarKeepsFlag(k, b, vr) ==
    IF b = "validate"
    THEN IF Strip(k) = <<>>
         THEN [valid |-> FALSE, status |-> "Please enter an API key."]
         ELSE [valid |-> vr.ok, status |-> vr.msg]
    ELSE [valid |-> key_valid, status |-> key_status]

\* app.py:237-249: key_valid and key_status after the sidebar has run.
Sidebar(k, b, vr) ==
    IF b = "validate"
    THEN IF Strip(k) = <<>>
         THEN [valid |-> FALSE, status |-> "Please enter an API key."]
         ELSE [valid |-> vr.ok, status |-> vr.msg]
    ELSE IF k /= api_key
    THEN [valid |-> FALSE, status |-> ""]
    ELSE [valid |-> key_valid, status |-> key_status]

\* The Analyze button with disabled=analyze_disabled left out.
ButtonAlwaysEnabled(b, valid) == b = "analyze"

\* st.button(..., disabled=analyze_disabled, help=...) (app.py:285-288): a
\* click reaches the button only when the button of this run is the enabled
\* one; the disabled button has another help text, so it is another widget.
AnalyzeButton(b, valid) == b = "analyze" /\ valid

\* One pass of main() that does not end in st.rerun().  sb: outcome of the
\* sidebar; txt: input text after the example buttons; vr, try as above.
RunOnce(k, t, m, b, lo, txt, sb, vr, try) ==
    /\ api_key' = k
    /\ key_status' = sb.status
    /\ input_text' = txt
    /\ a_model' = m
    /\ s_action' = (IF b /= "none" THEN b
                    ELSE IF k /= api_key THEN "edit_key"
                    ELSE IF t /= input_text THEN "edit_text"
                    ELSE "select_model")
    /\ s_disabled' = ~sb.valid
    /\ IF b = "validate" THEN ValidateClicked(k, lo, vr) ELSE NoValidation
    /\ IF AnalyzeButton(b, sb.valid)
       THEN AnalyzeClicked(Strip(txt), sb.valid, try)
       ELSE s_error' = "" /\ NoAnalysis /\ key_valid' = sb.valid

\* One run of main().  k: content of the key box; t: content of the text
\* area; m: selected model; b: the button clicked ("none", "validate",
\* "clear", "example", "analyze"); ex: label of the example button; lo: what
\* models.list() does; resp: what chat.completions.create() does.
MainRun(k, t, m, b, ex, lo, resp) ==
    IF b = "clear" THEN RunCleared(t, m)
    ELSE RunOnce(k, t, m, b, lo,
                 IF b = "example" THEN EXAMPLES[ex] ELSE t,
                 Sidebar(k, b, validate_api_key(k, v_present, lo)),
                 validate_api_key(k, v_present, lo),
                 TryBlock(v_present, m, resp))

EditKey ==
    \E k \in SessionKeys \ {api_key} :
        MainRun(k, input_text, a_model, "none", "Positive", "ok", Raise("none"))

ValidateKey ==
    \E k \in SessionKeys, lo \in ListOutcomes :
        MainRun(k, input_text, a_model, "validate", "Positive", lo, Raise("none"))

ClearKey ==
    MainRun(api_key, input_text, a_model, "clear", "Positive", "ok", Raise("none"))

PickExample ==
    \E ex \in DOMAIN EXAMPLES :
        MainRun(api_key, input_text, a_model, "example", ex, "ok", Raise("none"))

EditText ==
    \E t \in Texts \ {input_text} :
        MainRun(api_key, t, a_model, "none", "Positive", "ok", Raise("none"))

SelectModel ==
    \E m \in RECOMMENDED_MODELS \ {a_model} :
        MainRun(api_key, input_text, m, "none", "Positive", "ok", Raise("none"))

Analyze ==
    \E k \in SessionKeys, resp \in SessionResponses :
        MainRun(k, input_text, a_model, "analyze", "Positive", "ok", resp)

Next ==
    \/ EditKey
    \/ ValidateKey
    \/ ClearKey
    \/ PickExample
    \/ EditText
    \/ SelectModel
    \/ Analyze

Spec == InitSession /\ [][Next]_vars

(***************************************************************************)
(* Claims about validate_api_key.                                          *)
(***************************************************************************)
\* The structural pre-check as the specification words it: the credential
\* is empty or whitespace-only, or has neither a prefix followed by at least
\* one character nor a trimmed length of at least 20.
FailsPreCheck(raw) ==
    LET t == Strip(raw)
    IN  \/ t = <<>>
        \/ /\ ~\E p \in KeyPrefixes : StartsWith(t, p) /\ Len(t) > Len(p)
           /\ Len(t) < 20

\* C1: for every credential that fails the structural pre-check,
\* validate_api_key creates no client, makes no provider call, and returns
\* (false, message).
C1_RejectWithoutCall ==
    FailsPreCheck(v_key) =>
        /\ ~v_client
        /\ v_calls = 0
        /\ vpc \in {"start", "done"}
        /\ vpc = "done" => (v_ret /= NoRet /\ ~v_ret.ok /\ ~v_escaped)

C1_Witness ==
    /\ vpc = "done"
    /\ FailsPreCheck(v_key)
    /\ Strip(v_key) /= <<>>
    /\ v_ret = [ok |-> FALSE, msg |-> "Key format looks incorrect."]
    /\ v_calls = 0

\* C2: for every credential that passes the structural pre-check and every
\* outcome of the provider call (the client library being absent included),
\* validate_api_key makes at most one provider call, raises nothing, and
\* returns a pair whose first component is true exactly when the call was
\* made and either succeeded or was rate-limited.
C2_ValidIffAcceptedOrRateLimited ==
    ~FailsPreCheck(v_key) =>
        /\ v_calls <= 1
        /\ ~v_escaped
        /\ vpc = "done" =>
              /\ v_ret /= NoRet
              /\ v_ret.ok <=> (v_calls = 1 /\ v_outcome \in {"ok", "RateLimitError"})

C2_Witness ==
    /\ vpc = "done"
    /\ ~FailsPreCheck(v_key)
    /\ v_outcome = "RateLimitError"
    /\ v_calls = 1
    /\ v_ret.ok

(***************************************************************************)
(* Claims about analyze_sentiment and the Analyze branch of main().        *)
(***************************************************************************)
\* The reply was parsed and app.py:129-140 has run on it.
Built == a_data /= JNull /\ apc \in {"show", "except", "done"}

IsObject == a_data.t = "object"

InvalidLabel == [type |-> "ValueError", msg |-> MsgBadLabel]

\* The sentiment field after str() and strip(); absent reads as "".
TrimmedLabel(v) == IF v = JMissing THEN <<>> ELSE Strip(PyStr(v))

\* C3 as stated: every result carries one of the four labels, and a reply
\* whose sentiment field is absent or is not one of the four labels makes
\* analyze fail with InvalidLabel and return no result.
C3_AsStated ==
    /\ a_result /= NoResult => a_result.sentiment \in SENTIMENT_LABELS
    /\ (Built /\ IsObject
          /\ a_data.sentiment \notin {JStr(l) : l \in SENTIMENT_LABELS})
       => (a_result = NoResult /\ a_exc = InvalidLabel)

\* C3 (amended): every result carries one of the four labels, namely the
\* reply's sentiment field stringified and stripped of surrounding
\* whitespace; when the field is absent, or stringified and stripped is not
\* one of the four labels, analyze fails with InvalidLabel, returns no
\* result and main() shows none.
C3_LabelValidated ==
    /\ a_result /= NoResult =>
          /\ a_result.sentiment \in SENTIMENT_LABELS
          /\ IsObject
          /\ a_result.sentiment = TrimmedLabel(a_data.sentiment)
    /\ (Built /\ IsObject /\ TrimmedLabel(a_data.sentiment) \notin SENTIMENT_LABELS)
       => /\ a_result = NoResult
          /\ a_exc = InvalidLabel
          /\ a_shown = NoResult

C3_Witness ==
    /\ apc = "done"
    /\ IsObject
    /\ a_data.sentiment = JStr(<<"A","n","g","r","y">>)
    /\ a_exc = InvalidLabel
    /\ a_result = NoResult
    /\ a_shown = NoResult

IsNumber(v) == v.t \in {"int", "float"}

\* c > 1, c < 0 and 0 <= c <= 1 for a JSON number c.
NumGt1(v) ==
    IF v.t = "int" THEN v.m >= 2 \/ (v.m >= 1 /\ v.e > 0)
    ELSE v.f.sp = "inf" \/ (v.f.sp = "fin" /\ v.f.h > 100)

NumLt0(v) ==
    IF v.t = "int" THEN v.m < 0
    ELSE v.f.sp = "-inf" \/ (v.f.sp = "fin" /\ v.f.h < 0)

NumInUnit(v) ==
    IF v.t = "int" THEN v.m = 0 \/ (v.m = 1 /\ v.e = 0)
    ELSE v.f.sp = "fin" /\ v.f.h >= 0 /\ v.f.h <= 100

NumAsFloat(v) == IF v.t = "int" THEN Fin(100 * v.m) ELSE v.f

InUnitInterval(f) == f.sp = "fin" /\ f.h >= 0 /\ f.h <= 100

\* C4: for every numeric confidence c in a reply with a recognized label the
\* result's confidence is c clamped into [0,1] (1 when c > 1, 0 when c < 0,
\* c otherwise), and the confidence of every result lies in [0,1].
C4_ConfidenceClamped ==
    /\ a_result /= NoResult => InUnitInterval(a_result.confidence)
    /\ (Built /\ IsObject /\ TrimmedLabel(a_data.sentiment) \in SENTIMENT_LABELS
          /\ IsNumber(a_data.confidence))
       => /\ a_result /= NoResult
          /\ NumGt1(a_data.confidence) => a_result.confidence = Fin(100)
          /\ NumLt0(a_data.confidence) => a_result.confidence = Fin(0)
          /\ NumInUnit(a_data.confidence)
                => a_result.confidence = NumAsFloat(a_data.confidence)

\* A string that spells no number: no digit, and neither nan nor infinity.
NonNumberString(v) ==
    /\ v.t = "str"
    /\ \A i \in 1..Len(v.s) : DigitVal(v.s[i]) < 0
    /\ Lower(Strip(v.s)) \notin
          { <<"n","a","n">>, <<"i","n","f">>, <<"i","n","f","i","n","i","t","y">>, <<"-","i","n","f">>, <<"+","i","n","f">>, <<"-","i","n","f","i","n","i","t","y">>, <<"+","i","n","f","i","n","i","t","y">>,
            <<"-","n","a","n">>, <<"+","n","a","n">> }

NonNumeric(v) == v.t \in {"missing", "null", "list", "dict"} \/ NonNumberString(v)

\* C5: when the reply has a recognized label and its confidence is missing
\* or non-numeric, analyze succeeds with confidence 0.
C5_NonNumericConfidenceIsZero ==
    (Built /\ IsObject /\ TrimmedLabel(a_data.sentiment) \in SENTIMENT_LABELS
       /\ NonNumeric(a_data.confidence))
    => (a_result /= NoResult /\ a_result.confidence = Fin(0))

\* The normalised key phrases as the specification words them.
Trimmed(s) == s = <<>> \/ (s[1] \notin Whitespace /\ s[Len(s)] \notin Whitespace)

ExpectedPhrases(v) ==
    IF v.t /= "list" THEN <<>>
    ELSE LET mapped == [i \in 1..Len(v.items) |-> Strip(PyStr(v.items[i]))]
             kept   == SelectSeq(mapped, LAMBDA x : x /= <<>>)
         IN  SubSeq(kept, 1, IF Len(kept) < 12 THEN Len(kept) ELSE 12)

\* C6: the result's key_phrases are the reply's key_phrases elements,
\* stringified and trimmed, without the ones that are empty after trimming,
\* in order, cut to the first 12; at most 12 entries, each non-empty and
\* trimmed; a key_phrases value that is missing or not an array gives the
\* empty sequence.
C6_KeyPhrasesNormalised ==
    a_result /= NoResult =>
        /\ a_result.key_phrases = ExpectedPhrases(a_data.key_phrases)
        /\ Len(a_result.key_phrases) <= 12
        /\ \A i \in 1..Len(a_result.key_phrases) :
              a_result.key_phrases[i] /= <<>> /\ Trimmed(a_result.key_phrases[i])
        /\ a_data.key_phrases.t /= "list" => a_result.key_phrases = <<>>

C6_Witness ==
    /\ apc = "done"
    /\ a_shown /= NoResult
    /\ a_data.key_phrases.t = "list"
    /\ Len(a_data.key_phrases.items) > 12
    /\ \E i \in 1..12 : Strip(PyStr(a_data.key_phrases.items[i])) = <<>>
    /\ \E i \in 1..12 : a_data.key_phrases.items[i].t = "null"
    /\ Len(a_shown.key_phrases) = 12

\* The completion text as analyze_sentiment reads it.
ContentOf(resp) == Strip(IF resp.has_content THEN resp.content ELSE <<>>)

ValidJson(text) == NoWs(text) \in { <<"{", "M", "}">>, <<"{", "}">>, <<"v">> }

Braces(text, c) == {i \in 1..Len(text) : text[i] = c}

HasSpan(text) ==
    /\ Braces(text, "{") /= {}
    /\ Braces(text, "}") /= {}
    /\ (CHOOSE i \in Braces(text, "{") : \A k \in Braces(text, "{") : i <= k)
         < (CHOOSE j \in Braces(text, "}") : \A k \in Braces(text, "}") : j >= k)

SpanOf(text) ==
    SubSeq(text,
           CHOOSE i \in Braces(text, "{") : \A k \in Braces(text, "{") : i <= k,
           CHOOSE j \in Braces(text, "}") : \A k \in Braces(text, "}") : j >= k)

Parsed == a_resp.kind = "ok" /\ a_resp.choices = 1 /\ apc \in {"build", "show", "except", "done"}

MalformedOutput(e) ==
    e = [type |-> "ValueError", msg |-> MsgNoJson] \/ e.type = "JSONDecodeError"

\* C7: when the completion text does not parse directly as JSON, the
\* substring from the first "{" to the last "}" is parsed instead, so an
\* object surrounded by prose is read; without a valid brace span, or when
\* the span is not valid JSON, analyze fails with MalformedOutput.
C7_BraceSpanFallback ==
    (Parsed /\ ~ValidJson(ContentOf(a_resp))) =>
        IF HasSpan(ContentOf(a_resp)) /\ ValidJson(SpanOf(ContentOf(a_resp)))
        THEN /\ a_data = (IF NoWs(SpanOf(ContentOf(a_resp))) = <<"{", "M", "}">>
                          THEN a_resp.obj
                          ELSE JObject(JMissing, JMissing, JMissing, JMissing))
             /\ ~MalformedOutput(a_exc)
        ELSE /\ MalformedOutput(a_exc)
             /\ a_data = JNull
             /\ a_result = NoResult
             /\ a_shown = NoResult

C7_Witness ==
    /\ apc = "done"
    /\ a_resp.content = <<"p", "{", "M", "}", "p">>
    /\ a_shown /= NoResult
    /\ a_shown.sentiment = Mixed
    /\ a_shown.confidence = Fin(73)

\* Case-insensitive prefix and substring tests.
SameIgnoringCase(a, b) ==
    Len(a) = Len(b) /\ \A i \in 1..Len(a) : LowerChar(a[i]) = LowerChar(b[i])

ReasoningClass(model) ==
    \/ /\ Len(model) >= 5
       /\ SameIgnoringCase(SubSeq(model, 1, 5), <<"g","p","t","-","5">>)
    \/ \E i \in 1..(Len(model) - 8) :
          SameIgnoringCase(SubSeq(model, i, i + 8), <<"r","e","a","s","o","n","i","n","g">>)

\* C8: the completion request carries temperature 1 when the model
\* identifier, compared case-insensitively, starts with gpt-5 or contains
\* reasoning, and temperature 0 otherwise; gpt-5-mini gets 1 and
\* gpt-4o-mini gets 0.
C8_TemperaturePolicy ==
    a_calls >= 1 =>
        /\ a_temp = (IF ReasoningClass(a_model) THEN 1 ELSE 0)
        /\ a_model = <<"g","p","t","-","5","-","m","i","n","i">> => a_temp = 1
        /\ a_model = <<"g","p","t","-","4","o","-","m","i","n","i">> => a_temp = 0

C8_Witness ==
    /\ apc = "done"
    /\ a_model = <<"m","y","-","R","e","a","s","o","n","i","n","g","-","x">>
    /\ a_calls = 1
    /\ a_temp = 1

\* The failure kind of section 7 that an except clause of main() and the
\* exception it caught stand for.
FailureKind ==
    CASE a_handler = "AuthenticationError" -> "AuthenticationFailed"
      [] a_handler = "RateLimitError"      -> "RateLimited"
      [] a_handler = "APIConnectionError"  -> "ConnectionFailed"
      [] a_handler = "APIError"            -> "ProviderError"
      [] a_handler = "Exception" /\ MalformedOutput(a_exc) -> "MalformedOutput"
      [] a_handler = "Exception" /\ a_exc = InvalidLabel   -> "InvalidLabel"
      [] a_handler = "Exception" /\ ~MalformedOutput(a_exc) /\ a_exc /= InvalidLabel
                                           -> "UnexpectedError"
      [] OTHER                             -> "none"

\* C9: every failure of an analysis is caught by the except clauses around
\* the call and reported as one of the declared failure kinds; no exception
\* leaves the try block.
C9_FailuresCaught ==
    /\ ~a_escaped
    /\ apc = "done" =>
          \/ a_exc = NoExc /\ a_shown /= NoResult /\ a_handler = "none"
          \/ /\ a_exc /= NoExc
             /\ a_shown = NoResult
             /\ FailureKind /= "none"
             /\ a_resp.exc = "AuthenticationError" => FailureKind = "AuthenticationFailed"
             /\ a_resp.exc = "RateLimitError" => FailureKind = "RateLimited"
             /\ a_resp.exc \in {"APIConnectionError", "APITimeoutError"}
                   => FailureKind = "ConnectionFailed"
             /\ a_resp.exc = "APIStatusError" => FailureKind = "ProviderError"
             /\ a_resp.exc \in {"OpenAIError", "Exception"}
                   => FailureKind = "UnexpectedError"
             /\ (a_data /= JNull /\ ~IsObject) => FailureKind = "UnexpectedError"

C9_Witness ==
    /\ apc = "done"
    /\ a_data = JInt(42, 0)
    /\ a_exc.type = "AttributeError"
    /\ a_handler = "Exception"
    /\ a_shown = NoResult

\* C10: an analysis issues exactly one completion request, whether it
\* succeeds or fails, and an analysis that fails returns and shows no
\* result.
C10_OneRequestNoDefault ==
    /\ a_calls <= 1
    /\ apc \in {"parse", "build", "show", "except", "done"} => a_calls = 1
    /\ a_exc /= NoExc => (a_result = NoResult /\ a_shown = NoResult)
    /\ a_shown /= NoResult => a_shown = a_result

C10_Witness ==
    /\ apc = "done"
    /\ a_resp.exc = "RateLimitError"
    /\ a_calls = 1
    /\ a_result = NoResult
    /\ a_shown = NoResult

(***************************************************************************)
(* Claims about the session: runs of main() over user actions.             *)
(***************************************************************************)

\* C11: a run issues a completion request only if it is a run of the Analyze
\* button in which key_valid is true (the button is enabled) and the trimmed
\* input text has at least 10 characters; an Analyze run with empty or
\* shorter trimmed text shows an error and calls the provider neither for a
\* completion nor for the list of models.
C11_RequestOnlyWhenValidAndLongEnough ==
    /\ a_calls > 0 =>
           /\ s_action = "analyze"
           /\ s_disabled = FALSE
           /\ Len(Strip(input_text)) >= MIN_TEXT_LEN
    /\ (s_action = "analyze" /\ s_disabled = FALSE
          /\ Len(Strip(input_text)) < MIN_TEXT_LEN) =>
           /\ s_error = (IF Strip(input_text) = <<>>
                         THEN "Please enter some text to analyze."
                         ELSE "Text is too short. Please enter at least 10 characters.")
           /\ a_calls = 0
           /\ v_calls = 0
           /\ apc = "idle"
           /\ a_shown = NoResult

C11_Witness ==
    /\ s_action = "analyze"
    /\ s_disabled = FALSE
    /\ a_calls = 1
    /\ Len(input_text) > MIN_TEXT_LEN
    /\ Len(Strip(input_text)) = MIN_TEXT_LEN
    /\ s_error = ""

\* C12: key_valid is true only if the stored key is the one the most recent
\* call of validate_api_key was made with and that call returned valid; a
\* run that changes the stored key without Validate, or that clears it, ends
\* with key_valid false and key_status empty; a run whose analysis is caught
\* by the AuthenticationError clause ends with key_valid false; a run whose
\* analysis fails in any other way leaves key_valid and api_key as they were.
C12_KeyValidMeansValidated ==
    /\ [](/\ key_valid => (vpc = "done" /\ v_ret.ok /\ v_key = api_key)
          /\ (apc = "done" /\ a_handler = "AuthenticationError") => ~key_valid)
    /\ [][/\ (api_key' /= api_key /\ s_action' /= "validate") =>
                 (~key_valid' /\ key_status' = "")
          /\ s_action' = "clear" =>
                 (api_key' = <<>> /\ ~key_valid' /\ key_status' = "")
          /\ (apc' = "done" /\ a_exc' /= NoExc
                /\ a_handler' /= "AuthenticationError") =>
                 (key_valid' = key_valid /\ api_key' = api_key /\ key_valid)]_vars

C12_Witness ==
    /\ key_valid
    /\ api_key /= <<>>
    /\ v_key = api_key
    /\ v_ret.ok
    /\ apc = "done"
    /\ a_exc.type = "RateLimitError"
    /\ a_handler = "RateLimitError"

====
